---- MODULE Spec2Model ----
(***************************************************************************)
(* State-machine model of neon/data/batch_writer.py: the Ingester base     *)
(* class, the ImageNet-1K ingester (IngestI1K) with its multiprocessing    *)
(* pool, the per-subpath worker functions and transform_and_save.          *)
(***************************************************************************)
EXTENDS Integers, Sequences, FiniteSets, TLC

\* ------------------------------------------------------------------ bounds
\* top-level members of the training archive (one nested archive per class)
NumTrain == 2
\* top-level members of the validation archive (one image each)
NumVal == 2
\* images inside each nested class archive
FilesPerClass == 2
\* image geometry explored for transform_and_save
MaxSide == 4
\* largest target_size explored for transform_and_save
MaxTarget == 3
\* longest token sequence found in meta.mat explored for extract_labels
MaxSynsets == 4
\* class subdirectories of the directory ingester's input_dir
NumDirs == 2
\* image files per class directory of the directory ingester
FilesPerDir == 2

\* worker processes of multiprocessing.Pool() (cpu_count of the host)
NumWorkers == 2
\* target_size the ImageNet run is started with (256, scaled to the image
\* geometry of the model)
TargetSize == 2
\* bytes of an encoded image file
FileLen == 3

\* ------------------------------------------------------------ small helpers
Range(s) == {s[i] : i \in 1..Len(s)}

Min(a, b) == IF a < b THEN a ELSE b

RECURSIVE Concat(_)
\* flattening of a sequence of sequences
Concat(ss) == IF ss = <<>> THEN <<>> ELSE Head(ss) \o Concat(Tail(ss))

\* the sequences over S of length at most n
SeqsUpTo(S, n) == UNION {[1..k -> S] : k \in 0..n}

\* number of positions of s holding x
Count(s, x) == Cardinality({i \in 1..Len(s) : s[i] = x})

\* s and t hold the same elements the same number of times
SameBag(s, t) == /\ Len(s) = Len(t)
                 /\ \A x \in Range(s) \cup Range(t) : Count(s, x) = Count(t, x)

\* ------------------------------------------------------- names and slicing
DigitChars == <<"0", "1", "2", "3", "4", "5", "6", "7", "8", "9">>

RECURSIVE Pow10(_)
Pow10(k) == IF k = 0 THEN 1 ELSE 10 * Pow10(k - 1)

\* "%08d" % n
ZeroPad8(n) == [k \in 1..8 |-> DigitChars[((n \div Pow10(8 - k)) % 10) + 1]]

\* a class token as re.findall('n\d+') yields it: 'n' and eight digits
Token(i) == <<"n">> \o ZeroPad8(i)

\* name of the i-th member of the training archive: <token>.tar
TrainName(i) == Token(i) \o <<".", "t", "a", "r">>

\* name of the i-th member of the validation archive:
\* ILSVRC2012_val_<8 digits>.JPEG
ValName(i) == <<"I", "L", "S", "V", "R", "C", "2", "0", "1", "2", "_", "v", "a", "l", "_">>
              \o ZeroPad8(i) \o <<".", "J", "P", "E", "G">>

\* name of the j-th image inside the i-th class archive
InnerName(i, j) == Token(i) \o <<"_">> \o ZeroPad8(j) \o <<".", "J", "P", "E", "G">>

\* subpath.name[name_slice]: slice(None, 9) on 'train', slice(15, -5) otherwise
NameSlice(setn, name) ==
    IF setn = "train"
    THEN SubSeq(name, 1, Min(9, Len(name)))
    ELSE SubSeq(name, 16, Len(name) - 5)

SetNames == <<"train", "val">>

NumMembers(setn) == IF setn = "train" THEN NumTrain ELSE NumVal

\* root_tf.getmembers(): the members of a readable top-level archive, by index
MemberName(setn, i) == IF setn = "train" THEN TrainName(i) ELSE ValName(i)

\* file_list of process_i1k_tar_subpath: the members of the nested archive on
\* 'train', the subpath itself on 'val'
FileList(setn, i) ==
    IF setn = "train"
    THEN [j \in 1..FilesPerClass |-> InnerName(i, j)]
    ELSE <<ValName(i)>>

\* -------------------------------------------------------------- extract_labels
\* {s: i for i, s in enumerate(synsets)}: a later occurrence of a token
\* overwrites the entry of an earlier one
TrainLabelsOf(syn) ==
    [s \in Range(syn) |->
        (CHOOSE i \in 1..Len(syn) :
            syn[i] = s /\ \A j \in (i + 1)..Len(syn) : syn[j] # s) - 1]

\* {"%08d" % (i + 1): int(x) - 1 for i, x in enumerate(lines)}
ValLabelsOf(gt) ==
    [k \in {ZeroPad8(i) : i \in 1..Len(gt)} |->
        gt[CHOOSE i \in 1..Len(gt) : ZeroPad8(i) = k] - 1]

\* ---------------------------------------------------------- transform_and_save
\* An image file: its geometry, the bytes Image.open consumes from the handle
\* to learn the geometry (hdr) and the length of the file.
\* A handle is the file with a read position; read() returns bytes pos..len.
\* A written file is either an encoded image of some geometry, or raw bytes
\* copied from offset `from` of the source to its end.
Trunc(num, den) == num \div den

\* the width/height the code computes: int(side * (float(target) / shorter))
ScaledSides(w, h, target) ==
    IF w < h
    THEN IF w > target THEN <<target, Trunc(h * target, w)>> ELSE <<w, h>>
    ELSE IF h > target THEN <<Trunc(w * target, h), target>> ELSE <<w, h>>

\* what transform_and_save leaves at output_filename; with target_size 0 the
\* computed geometry is 0 x 0 and the resize branch is the one taken
TransformAndSave(target, img) ==
    LET opened == img.hdr                       \* position after Image.open
        wh == ScaledSides(img.w, img.h, target)
        \* the w < h branch resizes at once: img.size is then the new size and
        \* the resize has loaded (read) the whole file
        early == img.w < img.h /\ img.w > target
        size == IF early THEN wh ELSE <<img.w, img.h>>
        pos == IF early THEN img.len ELSE opened
    IN  IF size[1] # wh[1] \/ size[2] # wh[2]
        THEN [kind |-> "encoded", w |-> wh[1], h |-> wh[2], from |-> 0]
        ELSE [kind |-> "raw", w |-> img.w, h |-> img.h, from |-> pos]

\* ------------------------------------------------------------------- state
VARIABLES
    kind,             \* which ingester runs: "base" (Ingester) or "i1k" (IngestI1K)
    present,          \* os.path.exists of train tar, val tar and devkit
    readable,         \* whether tarfile.open can read each top-level archive
    synsets,          \* class tokens found in meta.mat, in encounter order
    groundTruth,      \* lines of the validation ground-truth file
    globOrder,        \* glob(input_dir/*) of the directory ingester
    validation_pct,   \* self.validation_pct as <<numerator, denominator>>
    class_samples_max,\* self.class_samples_max, 0 for None
    run,              \* 1: first run of the program, 2: the run after it
    pc,               \* position of the main process
    error,            \* the exception that ended the run, "none" otherwise
    train_labels,     \* self.train_labels
    val_labels,       \* self.val_labels
    setn,             \* index in SetNames of the set being extracted
    taskst,           \* per work item of the set: "queued", "running", "finished"
    needMk,           \* per running work item: os.path.exists(outpath) was False
    outqueue,         \* results the pool holds for the main process, oldest first
    ncollected,       \* results the main process has taken from the pool
    pairs,            \* the dictionary training_validation_pairs builds
    handed,           \* calls of process_i1k_tar_subpath per set and member
    transforms,       \* calls of transform_and_save in this run
    dirs,             \* label directories of the output tree
    files,            \* image files of the output tree: path -> content
    manifest,         \* csv files written: set name -> lines
    target_files,     \* <label>.txt files on disk
    prevPairs,        \* what training_validation_pairs returned in run 1
    t_img, t_target, t_out   \* one call of transform_and_save on its own

inputs == <<kind, present, readable, synsets, groundTruth, globOrder,
            validation_pct, class_samples_max>>
poolvars == <<taskst, needMk, outqueue, ncollected, handed, transforms>>
disk == <<dirs, files, manifest, target_files>>
tvars == <<t_img, t_target, t_out>>
vars == <<inputs, run, pc, error, train_labels, val_labels, setn, poolvars,
          pairs, disk, prevPairs, tvars>>

Archives == {"train", "val", "devkit"}

\* the inputs of one ImageNet input directory
FullSynsets == [i \in 1..NumTrain |-> Token(i)]

NoHandle == [w |-> 0, h |-> 0, hdr |-> 0, len |-> 0]
NoFile == [kind |-> "none", w |-> 0, h |-> 0, from |-> 0]

\* the image stored under a member of an archive
ImageOf(setname, i, j) ==
    [w |-> 1 + ((i + j) % MaxSide), h |-> 1 + ((i * j + 1) % MaxSide),
     hdr |-> 1, len |-> FileLen]

EmptyPairs(k) == IF k = "i1k" THEN [s \in {"train", "val"} |-> <<>>]
                 ELSE [s \in {"train", "valid"} |-> <<>>]

\* state of a freshly started process; the disk is not part of it
Fresh ==
    /\ pc = "new"
    /\ error = "none"
    /\ train_labels = <<>>
    /\ val_labels = <<>>
    /\ setn = 1
    /\ taskst = <<>>
    /\ needMk = <<>>
    /\ outqueue = <<>>
    /\ ncollected = 0
    /\ pairs = EmptyPairs(kind)
    /\ handed = [s \in {"train", "val"} |-> [i \in 1..NumMembers(s) |-> 0]]
    /\ transforms = 0

NoTransformCall ==
    /\ t_img = NoHandle
    /\ t_target = 0
    /\ t_out = NoFile

I1KInputs ==
    /\ kind = "i1k"
    /\ present \in [Archives -> BOOLEAN]
    /\ readable \in [{"train", "val"} -> BOOLEAN]
    \* at most one fault of the input directory at a time
    /\ Cardinality({a \in Archives : ~present[a]}) <= 1
    /\ (\E a \in Archives : ~present[a]) => \A s \in {"train", "val"} : readable[s]
    /\ globOrder = <<>>
    /\ validation_pct = <<1, 5>>
    /\ class_samples_max = 0

BaseInputs ==
    /\ kind = "base"
    /\ present = [a \in Archives |-> FALSE]
    /\ readable = [s \in {"train", "val"} |-> FALSE]
    /\ synsets = <<>>
    /\ groundTruth = <<>>
    /\ globOrder \in Permutations(1..NumDirs)
    /\ validation_pct \in {<<1, 5>>, <<1, 2>>}
    /\ class_samples_max \in {0, 1}

EmptyDisk ==
    /\ dirs = {}
    /\ files = <<>>
    /\ manifest = <<>>
    /\ target_files = {}

Init ==
    /\ \/ /\ I1KInputs
          /\ synsets \in {FullSynsets, SubSeq(FullSynsets, 1, NumTrain - 1),
                          Append(FullSynsets, Token(1))}
          /\ groundTruth \in {[i \in 1..NumVal |-> 1], [i \in 1..NumVal |-> i],
                              [i \in 1..(NumVal - 1) |-> 1]}
       \/ BaseInputs
    /\ run = 1
    /\ Fresh
    /\ EmptyDisk
    /\ prevPairs = <<>>
    /\ NoTransformCall

\* --------------------------------------------------- Ingester.__init__ (i1k)
\* check_files_exist with the validation archive left out of the tuple it tests
CheckFilesExist_NoValTar == \A a \in Archives \ {"val"} : present[a]

\* check_files_exist: every one of train tar, val tar and devkit exists
CheckFilesExist == \A a \in Archives : present[a]

\* Ingester.__init__ with post_init: nothing for the directory ingester;
\* check_files_exist then extract_labels for IngestI1K
Construct ==
    /\ pc = "new"
    /\ IF kind = "i1k" /\ ~CheckFilesExist
       THEN /\ pc' = "aborted"
            /\ error' = "IOError"
            /\ UNCHANGED <<train_labels, val_labels>>
       ELSE /\ pc' = "ready"
            /\ error' = error
            /\ train_labels' = IF kind = "i1k" THEN TrainLabelsOf(synsets) ELSE train_labels
            /\ val_labels' = IF kind = "i1k" THEN ValLabelsOf(groundTruth) ELSE val_labels
    /\ UNCHANGED <<inputs, run, setn, poolvars, pairs, disk, prevPairs, tvars>>

\* ------------------------------------------ IngestI1K.training_validation_pairs
\* getattr(self, setn + '_labels')
LabelDict(setname) == IF setname = "train" THEN train_labels ELSE val_labels

\* top of the loop body for one set: open the top-level archive, list its
\* members and hand them to a new pool
OpenSet ==
    /\ pc = "ready"
    /\ kind = "i1k"
    /\ LET s == SetNames[setn]
       IN  IF ~present[s]
           THEN /\ pc' = "aborted"
                /\ error' = "IOError"          \* tarfile.open of a missing file
                /\ UNCHANGED <<taskst, needMk>>
           ELSE IF ~readable[s]
           THEN /\ pc' = "aborted"
                /\ error' = "ValueError"       \* raised on tarfile.ReadError
                /\ UNCHANGED <<taskst, needMk>>
           ELSE /\ pc' = "pool"
                /\ error' = error
                /\ taskst' = [i \in 1..NumMembers(s) |-> "queued"]
                /\ needMk' = [i \in 1..NumMembers(s) |-> FALSE]
    /\ outqueue' = <<>>
    /\ ncollected' = 0
    /\ UNCHANGED <<inputs, run, train_labels, val_labels, setn, handed, transforms,
                   pairs, disk, prevPairs, tvars>>

\* the loop body with the append moved under the exists test: a file that is
\* skipped emits no pair
LoopBody_SkipEmitsNothing(target, label, setname, i, file_list, j, acc) ==
    LET fname == <<setname, label, file_list[j]>>
        skip == fname \in DOMAIN acc.files
    IN  IF skip THEN acc
        ELSE [pair_list |-> Append(acc.pair_list, <<fname, label>>),
              files |-> (fname :> TransformAndSave(target, ImageOf(setname, i, j)))
                        @@ acc.files,
              n |-> acc.n + 1]

\* one turn of the loop of process_files_in_tar, on the j-th file of file_list
LoopBody(target, label, setname, i, file_list, j, acc) ==
    LET fname == <<setname, label, file_list[j]>>
        skip == fname \in DOMAIN acc.files
    IN  [pair_list |-> Append(acc.pair_list, <<fname, label>>),
         files |-> IF skip THEN acc.files
                   ELSE (fname :> TransformAndSave(target, ImageOf(setname, i, j)))
                        @@ acc.files,
         n |-> IF skip THEN acc.n ELSE acc.n + 1]

RECURSIVE ProcessFrom(_, _, _, _, _, _, _)
ProcessFrom(target, label, setname, i, file_list, j, acc) ==
    IF j > Len(file_list) THEN acc
    ELSE ProcessFrom(target, label, setname, i, file_list, j + 1,
                     LoopBody(target, label, setname, i, file_list, j, acc))

\* process_files_in_tar after its makedirs: the pair list it returns, the files
\* of the output tree afterwards and the number of transform_and_save calls
ProcessFilesInTar(target, label, setname, i, file_list, fs) ==
    ProcessFrom(target, label, setname, i, file_list, 1,
                [pair_list |-> <<>>, files |-> fs, n |-> 0])

Running == {i \in DOMAIN taskst : taskst[i] = "running"}
Queued == {i \in DOMAIN taskst : taskst[i] = "queued"}

\* a free worker takes the oldest queued work item and runs
\* process_i1k_tar_subpath up to os.path.exists(outpath) of process_files_in_tar
WorkerStart(i) ==
    /\ pc = "pool"
    /\ i \in Queued
    /\ \A k \in Queued : i <= k
    /\ Cardinality(Running) < NumWorkers
    /\ LET s == SetNames[setn]
           key == NameSlice(s, MemberName(s, i))
       IN  /\ handed' = [handed EXCEPT ![s][i] = @ + 1]
           /\ IF key \notin DOMAIN LabelDict(s)
              THEN /\ taskst' = [taskst EXCEPT ![i] = "finished"]
                   /\ outqueue' = Append(outqueue,
                                         [ok |-> FALSE, err |-> "KeyError", pair_list |-> <<>>])
                   /\ UNCHANGED needMk
              ELSE /\ taskst' = [taskst EXCEPT ![i] = "running"]
                   /\ needMk' = [needMk EXCEPT ![i] = <<s, LabelDict(s)[key]>> \notin dirs]
                   /\ UNCHANGED outqueue
    /\ UNCHANGED <<inputs, run, pc, error, train_labels, val_labels, setn, ncollected,
                   transforms, pairs, disk, prevPairs, tvars>>

\* the rest of process_files_in_tar: os.makedirs(outpath) when the directory
\* was seen missing, the loop over file_list, the result handed to the pool
WorkerFinish(i) ==
    /\ pc = "pool"
    /\ i \in Running
    /\ LET s == SetNames[setn]
           label == LabelDict(s)[NameSlice(s, MemberName(s, i))]
           outpath == <<s, label>>
           res == ProcessFilesInTar(TargetSize, label, s, i, FileList(s, i), files)
       IN  IF needMk[i] /\ outpath \in dirs
           THEN \* os.makedirs on a directory another worker has made meanwhile
                /\ outqueue' = Append(outqueue,
                                      [ok |-> FALSE, err |-> "OSError", pair_list |-> <<>>])
                /\ UNCHANGED <<dirs, files, transforms>>
           ELSE /\ dirs' = dirs \cup {outpath}
                /\ files' = res.files
                /\ transforms' = transforms + res.n
                /\ outqueue' = Append(outqueue,
                                      [ok |-> TRUE, err |-> "none", pair_list |-> res.pair_list])
    /\ taskst' = [taskst EXCEPT ![i] = "finished"]
    /\ UNCHANGED <<inputs, run, pc, error, train_labels, val_labels, setn, needMk,
                   ncollected, handed, pairs, manifest, target_files, prevPairs, tvars>>

\* one turn of the loop over pool.imap_unordered: the oldest result is taken;
\* a worker's exception is raised again in the main process
Collect ==
    /\ pc = "pool"
    /\ outqueue # <<>>
    /\ LET r == Head(outqueue)
           s == SetNames[setn]
       IN  IF r.ok
           THEN /\ pairs' = [pairs EXCEPT ![s] = @ \o r.pair_list]
                /\ UNCHANGED <<pc, error>>
           ELSE /\ pc' = "aborted"
                /\ error' = r.err
                /\ UNCHANGED pairs
    /\ outqueue' = Tail(outqueue)
    /\ ncollected' = ncollected + 1
    /\ UNCHANGED <<inputs, run, train_labels, val_labels, setn, taskst, needMk,
                   handed, transforms, disk, prevPairs, tvars>>

\* the iterator is exhausted: pool.close(), pool.join(), root_tf.close(), then
\* the next set or the return of the dictionary
CloseSet ==
    /\ pc = "pool"
    /\ ncollected = NumMembers(SetNames[setn])
    /\ IF setn < Len(SetNames)
       THEN /\ setn' = setn + 1
            /\ pc' = "ready"
       ELSE /\ setn' = setn
            /\ pc' = "returned"
    /\ UNCHANGED <<inputs, run, error, train_labels, val_labels, poolvars, pairs,
                   disk, prevPairs, tvars>>

\* ------------------------------------------- Ingester.training_validation_pairs
\* label_dict: the index of a subdirectory's name in sorted(label_names)
LabelOfDir(d, subdirs) == Cardinality({e \in Range(subdirs) : e < d})

\* glob(os.path.join(subdir, file_pattern)), cut to class_samples_max
FilesOfDir(d) ==
    LET all == [k \in 1..FilesPerDir |-> <<"in", d, k>>]
    IN  IF class_samples_max # 0
        THEN SubSeq(all, 1, Min(class_samples_max, Len(all)))
        ELSE all

\* int(self.validation_pct * len(lines))
ValIdx(n) == Trunc(validation_pct[1] * n, validation_pct[2])

RECURSIVE SplitFrom(_, _, _)
\* the loop over subdirs: lines[v_idx:] to tlines, lines[:v_idx] to vlines
SplitFrom(subdirs, k, acc) ==
    IF k > Len(subdirs) THEN acc
    ELSE LET d == subdirs[k]
             fl == FilesOfDir(d)
             lines == [x \in 1..Len(fl) |-> <<fl[x], LabelOfDir(d, subdirs)>>]
             v_idx == ValIdx(Len(lines))
         IN  SplitFrom(subdirs, k + 1,
                       [tlines |-> acc.tlines \o SubSeq(lines, v_idx + 1, Len(lines)),
                        vlines |-> acc.vlines \o SubSeq(lines, 1, v_idx)])

\* the draw in 0..i the generator seeded by np.random.seed(0) makes for
\* position i; the same in every run
Draw(i) == (3 * i + 1) % (i + 1)

Swap(x, a, b) == [x EXCEPT ![a] = x[b], ![b] = x[a]]

RECURSIVE ShuffleFrom(_, _)
\* np.random.shuffle: for i = n-1 down to 1, swap x[i] with x[draw in 0..i]
ShuffleFrom(x, i) ==
    IF i < 1 THEN x ELSE ShuffleFrom(Swap(x, i + 1, Draw(i) + 1), i - 1)

Shuffle(x) == ShuffleFrom(x, Len(x) - 1)

BasePairs ==
    /\ pc = "ready"
    /\ kind = "base"
    /\ LET split == SplitFrom(globOrder, 1, [tlines |-> <<>>, vlines |-> <<>>])
       IN  pairs' = [s \in {"train", "valid"} |->
                        IF s = "train" THEN Shuffle(split.tlines) ELSE split.vlines]
    /\ pc' = "returned"
    /\ UNCHANGED <<inputs, run, error, train_labels, val_labels, setn, poolvars,
                   disk, prevPairs, tvars>>

\* ----------------------------------------------------- Ingester.write_csv_files
\* the attributes <setn>_file that __init__ sets: train_file and val_file
HasFileAttr(setname) == setname \in {"train", "val"}

\* _target_filename(target): out_dir/<target>.txt
TargetFilename(target) == <<"txt", target>>

RECURSIVE WriteFrom(_, _, _)
\* the loop over the dictionary's items in the order the dictionary yields them
WriteFrom(order, k, acc) ==
    IF k > Len(order) THEN acc
    ELSE LET s == order[k]
             lines == [x \in 1..Len(pairs[s]) |->
                          <<pairs[s][x][1], TargetFilename(pairs[s][x][2])>>]
         IN  IF ~HasFileAttr(s)
             THEN [acc EXCEPT !.err = "AttributeError"]    \* getattr(self, s + '_file')
             ELSE WriteFrom(order, k + 1,
                            [manifest |-> (s :> lines) @@ acc.manifest,
                             target_files |-> acc.target_files
                                              \cup {pairs[s][x][2] : x \in 1..Len(pairs[s])},
                             err |-> "none"])

WriteCsvFiles ==
    /\ pc = "returned"
    /\ \E order \in {o \in [1..2 -> DOMAIN pairs] : o[1] # o[2]} :
          LET w == WriteFrom(order, 1, [manifest |-> manifest,
                                        target_files |-> target_files, err |-> "none"])
          IN  /\ manifest' = w.manifest
              /\ target_files' = w.target_files
              /\ error' = w.err
              /\ pc' = IF w.err = "none" THEN "done" ELSE "aborted"
    /\ UNCHANGED <<inputs, run, train_labels, val_labels, setn, poolvars, pairs,
                   dirs, files, prevPairs, tvars>>

\* ------------------------------------------------------------ the program again
\* the program is started once more on the same input and the same out_dir
Rerun ==
    /\ pc = "done"
    /\ run = 1
    /\ run' = 2
    /\ prevPairs' = pairs
    /\ pc' = "new"
    /\ error' = "none"
    /\ train_labels' = <<>>
    /\ val_labels' = <<>>
    /\ setn' = 1
    /\ taskst' = <<>>
    /\ needMk' = <<>>
    /\ outqueue' = <<>>
    /\ ncollected' = 0
    /\ pairs' = EmptyPairs(kind)
    /\ handed' = [s \in {"train", "val"} |-> [i \in 1..NumMembers(s) |-> 0]]
    /\ transforms' = 0
    /\ UNCHANGED <<inputs, disk, tvars>>

Next ==
    \/ Construct
    \/ OpenSet
    \/ \E i \in 1..(NumTrain + NumVal) : WorkerStart(i)
    \/ \E i \in 1..(NumTrain + NumVal) : WorkerFinish(i)
    \/ Collect
    \/ CloseSet
    \/ BasePairs
    \/ WriteCsvFiles
    \/ Rerun

Spec == Init /\ [][Next]_vars

\* --------------------------------------------- transform_and_save on its own
AllPresent ==
    /\ I1KInputs
    /\ \A a \in Archives : present[a]
    /\ \A s \in {"train", "val"} : readable[s]

InitTransform ==
    /\ AllPresent
    /\ synsets = FullSynsets
    /\ groundTruth = [i \in 1..NumVal |-> 1]
    /\ run = 1
    /\ Fresh
    /\ EmptyDisk
    /\ prevPairs = <<>>
    /\ t_img \in [w : 1..MaxSide, h : 1..MaxSide, hdr : 0..(FileLen - 1), len : {FileLen}]
    /\ t_target \in 0..MaxTarget
    /\ t_out = NoFile

TransformCall ==
    /\ t_out = NoFile
    /\ t_out' = TransformAndSave(t_target, t_img)
    /\ UNCHANGED <<inputs, run, pc, error, train_labels, val_labels, setn, poolvars,
                   pairs, disk, prevPairs, t_img, t_target>>

NextTransform == TransformCall

SpecTransform == InitTransform /\ [][NextTransform]_vars

\* ------------------------------------------------------ extract_labels on its own
InitLabels ==
    /\ AllPresent
    /\ synsets \in SeqsUpTo({Token(i) : i \in 1..(NumTrain + 1)}, MaxSynsets)
    /\ groundTruth = [i \in 1..NumVal |-> i]
    /\ run = 1
    /\ Fresh
    /\ EmptyDisk
    /\ prevPairs = <<>>
    /\ NoTransformCall

NextLabels == Construct

SpecLabels == InitLabels /\ [][NextLabels]_vars

\* ===================================================================== claims
Members(s) == 1..NumMembers(s)

KeyOf(s, i) == NameSlice(s, MemberName(s, i))

HasLabel(s, i) == KeyOf(s, i) \in DOMAIN LabelDict(s)

\* the pair list process_i1k_tar_subpath returns for member i of set s; a member
\* whose key is not in the dictionary returns none
ReturnedPairs(s, i) ==
    IF HasLabel(s, i)
    THEN LET label == LabelDict(s)[KeyOf(s, i)]
             fl == FileList(s, i)
         IN  [j \in 1..Len(fl) |-> <<(<<s, label, fl[j]>>), label>>]
    ELSE <<>>

AllReturned(s) == Concat([i \in Members(s) |-> ReturnedPairs(s, i)])

InputOk == /\ \A a \in Archives : present[a]
           /\ \A s \in {"train", "val"} : readable[s]

Ended == pc \in {"done", "aborted"}

\* every output file of every member already exists in the output tree
AllOutputsExist ==
    \A s \in {"train", "val"} : \A i \in Members(s) :
        /\ HasLabel(s, i)
        /\ \A x \in Range(ReturnedPairs(s, i)) : x[1] \in DOMAIN files

\* C1: in IngestI1K.training_validation_pairs no member is handed to
\* process_i1k_tar_subpath twice, and once the run on a present, readable input
\* has ended every member of each set has been handed to it exactly once and the
\* set's result list holds exactly the pairs returned for its members, in some
\* order.
C1_ExactlyOnceAndComplete ==
    kind = "i1k" =>
        /\ \A s \in {"train", "val"} : \A i \in Members(s) : handed[s][i] <= 1
        /\ (Ended /\ InputOk) =>
               \A s \in {"train", "val"} :
                   /\ \A i \in Members(s) : handed[s][i] = 1
                   /\ SameBag(pairs[s], AllReturned(s))

\* C2: creating the label directory is safe under concurrency: no worker fails
\* in os.makedirs, whatever the interleaving of the exists checks and the
\* makedirs calls of workers that share a label.
C2_MakedirsNeverFails ==
    /\ error # "OSError"
    /\ \A k \in 1..Len(outqueue) : outqueue[k].err # "OSError"

\* C3: for target_size > 0 and min(width, height) > target_size,
\* transform_and_save leaves at output_filename an encoded, resized image whose
\* shorter side is target_size and whose longer side is the truncated scaled
\* value, for width < height and for width >= height.
C3_ResizedImageSaved ==
    (t_out # NoFile /\ t_target > 0 /\ Min(t_img.w, t_img.h) > t_target) =>
        /\ t_out.kind = "encoded"
        /\ Min(t_out.w, t_out.h) = t_target
        /\ IF t_img.w < t_img.h
           THEN t_out.w = t_target /\ t_out.h = Trunc(t_img.h * t_target, t_img.w)
           ELSE t_out.h = t_target /\ t_out.w = Trunc(t_img.w * t_target, t_img.h)

\* C4: for target_size = 0 or min(width, height) <= target_size,
\* transform_and_save does not resize and writes the complete input bytes.
C4_CopiedVerbatim ==
    (t_out # NoFile /\ (t_target = 0 \/ Min(t_img.w, t_img.h) <= t_target)) =>
        /\ t_out.kind = "raw"
        /\ t_out.from = 0

\* C5: a run on an output tree in which every output file exists calls
\* transform_and_save zero times, does not fail, and returns for each set the
\* same set of (output path, label) pairs as the fresh run returned.
C5_RerunSkipsAndReturnsSame ==
    (kind = "i1k" /\ run = 2 /\ AllOutputsExist) =>
        /\ transforms = 0
        /\ pc # "aborted"
        /\ pc \in {"returned", "done"} =>
               \A s \in {"train", "val"} : Range(pairs[s]) = Range(prevPairs[s])

\* C5 witness: the second run has ended on the full tree, having returned the
\* pairs of every member without a transform
C5_Witness ==
    /\ kind = "i1k"
    /\ run = 2
    /\ AllOutputsExist
    /\ pc = "done"
    /\ transforms = 0
    /\ Len(pairs["train"]) = NumTrain * FilesPerClass
    /\ Len(pairs["val"]) = NumVal

\* C6: a member whose label key is absent from the dictionary fails alone: the
\* run goes on to its end, and every other member of the set contributes its
\* pairs to the result.
C6_LabelNotFoundIsolated ==
    \A s \in {"train", "val"} : \A i \in Members(s) :
        (kind = "i1k" /\ Ended /\ error # "OSError"
         /\ handed[s][i] = 1 /\ ~HasLabel(s, i)) =>
            /\ pc = "done"
            /\ \A k \in Members(s) \ {i} :
                   Range(ReturnedPairs(s, k)) \subseteq Range(pairs[s])

\* C7 (as claimed): when the run ends on a missing archive or an unreadable
\* top-level archive, no work item of either set has been dispatched.
C7_AbortBeforeAnyWork ==
    error \in {"IOError", "ValueError"} =>
        \A s \in {"train", "val"} : \A i \in Members(s) : handed[s][i] = 0

\* C7 (amended): when the run ends on a missing archive, no work item of either
\* set has been dispatched; when it ends on an unreadable top-level archive, no
\* work item of that set or of a later set has been dispatched.
C7_AbortBeforeWorkOfThatSet ==
    /\ error = "IOError" =>
           \A s \in {"train", "val"} : \A i \in Members(s) : handed[s][i] = 0
    /\ error = "ValueError" =>
           \A k \in setn..Len(SetNames) : \A i \in Members(SetNames[k]) :
               handed[SetNames[k]][i] = 0

\* C7 witness: the validation archive was found unreadable after every training
\* member had been dispatched
C7_Witness ==
    /\ error = "ValueError"
    /\ setn = 2
    /\ \A i \in Members("train") : handed["train"][i] = 1
    /\ \A i \in Members("val") : handed["val"][i] = 0

\* C8: the training label dictionary extract_labels builds uses only labels in
\* 0..K-1, K the number of distinct class tokens found, and uses all of them.
C8_LabelsDense ==
    (kind = "i1k" /\ pc = "ready") =>
        {train_labels[s] : s \in DOMAIN train_labels}
            = 0..(Cardinality(Range(synsets)) - 1)

\* C9: once write_csv_files has run, each set of the dictionary returned by
\* training_validation_pairs has its manifest, holding one line
\* <image path>,<label file path> per record of the set.
C9_ManifestForEverySet ==
    (pc = "done" \/ error = "AttributeError") =>
        \A s \in DOMAIN pairs :
            /\ s \in DOMAIN manifest
            /\ manifest[s] = [x \in 1..Len(pairs[s]) |->
                                 <<pairs[s][x][1], TargetFilename(pairs[s][x][2])>>]

\* C10: two runs of IngestI1K on the same input return the training list in
\* the same order, whatever the order in which the workers completed.
C10_TrainOrderReproducible ==
    (kind = "i1k" /\ run = 2 /\ pc \in {"returned", "done"}) =>
        pairs["train"] = prevPairs["train"]

====
